---- MODULE Spec2Model ----
(***************************************************************************)
(* Model of FpCalc: the calculation engine (src/fpcalc.py: the table       *)
(* lookups, the approximate period, the derived quantities Hf and Rmu and  *)
(* the two clamped coefficient functions) and the script that drives it    *)
(* (src/app.py: required selections, the SDS kept in the session, the      *)
(* results of each edition).                                               *)
(*                                                                         *)
(* Python values are modelled as tagged records:                           *)
(*   None              [t |-> "None"]                                      *)
(*   a float           [t |-> "float", n |-> num, d |-> den]  (exact       *)
(*                     rational in lowest terms, den > 0; rounding,        *)
(*                     infinities and NaN of IEEE doubles are not modelled)*)
(*   math.sqrt(q)      [t |-> "sqrt", n, d] when q = n/d is no rational    *)
(*                     square, the float of the root otherwise; such a     *)
(*                     root is compared through its square and is not an   *)
(*                     operand of the arithmetic operators below           *)
(*   b ** e            [t |-> "pow", b, e] when it is not written out as a *)
(*                     float, and [t |-> "times", k, p] for k times it     *)
(*   a tuple           [t |-> "tuple", items |-> <<...>>]                  *)
(*   a str             [t |-> "str", s |-> <<characters>>]                 *)
(*   a dict            a record with t |-> "dict" and its keys             *)
(* A call ends in an outcome [exc |-> "none", val |-> value] or            *)
(* [exc |-> <exception class>, val |-> None].                              *)
(*                                                                         *)
(* Spec is the engine called with arbitrary arguments; SpecApp is the      *)
(* script run on arbitrary widget values.  The widget values of SpecApp    *)
(* keep calculate_rmu and calculate_ta to results that are floats.         *)
(***************************************************************************)
EXTENDS Integers, Sequences, FiniteSets, TLC

\* pc, fn, args, ret: a call of an engine function (position, function,
\* arguments, outcome).
\* sds_value, sds_location, sds_params: the keys of st.session_state that
\* src/app.py keeps between runs of the script.
\* ui: the widget values of the last run of the script; run: what that run
\* did (the engine calls it made, the SDS it used, its results, where it
\* stopped).  Both are None while no run is on display.
VARIABLES pc, fn, args, ret, sds_value, sds_location, sds_params, ui, run

vars == <<pc, fn, args, ret, sds_value, sds_location, sds_params, ui, run>>

engine == <<pc, fn, args, ret>>

app == <<sds_value, sds_location, sds_params, ui, run>>

(* ------------------------------------------------------------------ *)
(* Python values                                                       *)
(* ------------------------------------------------------------------ *)

None == [t |-> "None"]

Abs(i) == IF i < 0 THEN -i ELSE i

RECURSIVE GCD(_, _)
GCD(a, b) == IF b = 0 THEN a ELSE GCD(b, a % b)

\* The float n/d, d # 0, in lowest terms with a positive denominator.
F(n, d) ==
    LET g == GCD(Abs(n), Abs(d))
        s == IF d < 0 THEN -1 ELSE 1
    IN  [t |-> "float", n |-> (s * n) \div g, d |-> (s * d) \div g]

Tuple(s) == [t |-> "tuple", items |-> s]

Str(s) == [t |-> "str", s |-> s]

Returns(v) == [exc |-> "none", val |-> v]

Raises(e) == [exc |-> e, val |-> None]

IsNone(v) == v.t = "None"

IsFloat(v) == v.t = "float"

\* Arithmetic on a value that is no number raises TypeError; inside an
\* expression it is carried as this value until the call ends.
TypeError == [t |-> "TypeError"]

Num(a, b) == IsFloat(a) /\ IsFloat(b)

\* float arithmetic: +, -, *, / and the comparisons
\* (common factors are cancelled before multiplying, to keep the integers small)
Add(a, b) ==
    IF ~Num(a, b) THEN TypeError
    ELSE LET g == GCD(a.d, b.d)
         IN  F(a.n * (b.d \div g) + b.n * (a.d \div g), (a.d \div g) * b.d)

Neg(a) == IF ~IsFloat(a) THEN TypeError ELSE [a EXCEPT !.n = -a.n]

Sub(a, b) == Add(a, Neg(b))

Mul(a, b) ==
    IF ~Num(a, b) THEN TypeError
    ELSE LET g1 == GCD(Abs(a.n), b.d)
             g2 == GCD(Abs(b.n), a.d)
         IN  F((a.n \div g1) * (b.n \div g2), (a.d \div g2) * (b.d \div g1))

IsZero(a) == IsFloat(a) /\ a.n = 0

\* a / b for b # 0; Python raises ZeroDivisionError for b = 0, which the
\* callers below test with IsZero before they divide.
Div(a, b) == IF ~Num(a, b) THEN TypeError ELSE Mul(a, F(b.d, b.n))

Le(a, b) == Num(a, b) /\ a.n * b.d <= b.n * a.d

Lt(a, b) == Num(a, b) /\ a.n * b.d < b.n * a.d

Gt(a, b) == Lt(b, a)

\* Python's min(a, b) returns a unless b < a; max(a, b) returns a unless b > a.
Min(a, b) == IF ~Num(a, b) THEN TypeError ELSE IF Lt(b, a) THEN b ELSE a

Max(a, b) == IF ~Num(a, b) THEN TypeError ELSE IF Gt(b, a) THEN b ELSE a

\* a ** 2 and a ** 10
Pow2(a) == Mul(a, a)

Pow10(a) == Mul(Pow2(Pow2(Pow2(a))), Pow2(a))

(* ------------------------------------------------------------------ *)
(* str.strip() and str.lower() on strings of single characters         *)
(* ------------------------------------------------------------------ *)

IsSpace(c) == c = " "

RECURSIVE lstrip(_)
lstrip(s) == IF s # <<>> /\ IsSpace(Head(s)) THEN lstrip(Tail(s)) ELSE s

RECURSIVE rstrip(_)
rstrip(s) ==
    IF s # <<>> /\ IsSpace(s[Len(s)]) THEN rstrip(SubSeq(s, 1, Len(s) - 1)) ELSE s

strip(s) == rstrip(lstrip(s))

lowerChar(c) == IF c = "A" THEN "a" ELSE IF c = "B" THEN "b" ELSE c

lower(s) == [i \in 1..Len(s) |-> lowerChar(s[i])]

\* row[key].strip().lower() == name.strip().lower()
SameName(key, name) == lower(strip(key.s)) = lower(strip(name.s))

(* ------------------------------------------------------------------ *)
(* Table lookups (src/fpcalc.py 6-36)                                  *)
(* ------------------------------------------------------------------ *)

\* (mutant of FirstMatch: the scan keeps going and the last match wins)
RECURSIVE LastMatchFrom(_, _, _, _)
LastMatchFrom(data, field, name, i) ==
    IF i < 1 THEN 0
    ELSE IF SameName(data[i][field], name) THEN i
    ELSE LastMatchFrom(data, field, name, i - 1)

FirstMatch_last(data, field, name) == LastMatchFrom(data, field, name, Len(data))

\* Index of the first row of data whose key field matches name, 0 if none:
\* the for loop returns at the first match.
RECURSIVE FirstMatchFrom(_, _, _, _)
FirstMatchFrom(data, field, name, i) ==
    IF i > Len(data) THEN 0
    ELSE IF SameName(data[i][field], name) THEN i
    ELSE FirstMatchFrom(data, field, name, i + 1)

FirstMatch(data, field, name) == FirstMatchFrom(data, field, name, 1)

get_sfrs_factors(sfrs_data, selected_sfrs) ==
    IF IsNone(selected_sfrs) THEN Returns(Tuple(<<None, None>>))
    ELSE LET i == FirstMatch(sfrs_data, "SFRS", selected_sfrs)
         IN  IF i # 0
             THEN Returns(Tuple(<<sfrs_data[i].R, sfrs_data[i].Omega>>))
             ELSE Returns(Tuple(<<F(1, 1), F(1, 1)>>))

get_component_factors(component_data, component_name, location) ==
    IF IsNone(component_name) THEN Returns(Tuple(<<F(1, 1), F(1, 1), F(1, 1)>>))
    ELSE LET i == FirstMatch(component_data, "Component", component_name)
         IN  IF i # 0
             THEN LET row == component_data[i]
                      car == IF location = "Supported At or Below Grade"
                             THEN row.CAR_below ELSE row.CAR_above
                  IN  Returns(Tuple(<<car, row.Rpo, row.Omega>>))
             ELSE Returns(Tuple(<<F(1, 1), F(1, 1), F(1, 1)>>))

get_component_factors_16(component_data, component_name) ==
    IF IsNone(component_name) THEN Returns(Tuple(<<F(1, 1), F(1, 1), F(1, 1)>>))
    ELSE LET i == FirstMatch(component_data, "Component", component_name)
         IN  IF i # 0
             THEN LET row == component_data[i]
                  IN  Returns(Tuple(<<row.ap_16, row.Rp_16, row.Omega_16>>))
             ELSE Returns(Tuple(<<F(1, 1), F(1, 1), F(1, 1)>>))

(* ------------------------------------------------------------------ *)
(* Derived quantities (src/fpcalc.py 52-70)                            *)
(* ------------------------------------------------------------------ *)

\* (mutant of CapZ: the cap is left out)
CapZ_off(z, h) == z

\* if z > h: z = h
CapZ(z, h) == IF Gt(z, h) THEN h ELSE z

\* (mutant of HfPeriod: the a2 term is not scaled by the height ratio)
HfPeriod_flat(zh, a1, a2) == Add(Add(F(1, 1), Mul(a1, zh)), a2)

\* 1 + a1 * (z / h) + a2 * (z / h) ** 10
HfPeriod(zh, a1, a2) == Add(Add(F(1, 1), Mul(a1, zh)), Mul(a2, Pow10(zh)))

\* z > h raises TypeError when z or h is no number; z / h raises
\* ZeroDivisionError when h = 0.
calculate_hf(z0, h, Ta) ==
    IF ~Num(z0, h) THEN Raises("TypeError")
    ELSE LET z == CapZ(z0, h)
         IN  IF IsNone(Ta)
             THEN IF IsZero(h) THEN Raises("ZeroDivisionError")
                  ELSE Returns(Tuple(<<Add(F(1, 1), Mul(F(5, 2), Div(z, h))),
                                      None, None>>))
             ELSE IF ~IsFloat(Ta) THEN Raises("TypeError")
             ELSE IF Le(Ta, F(0, 1)) \/ Le(h, F(0, 1))
             THEN Returns(F(7, 2))
             ELSE LET a1 == Min(Div(F(1, 1), Ta), F(5, 2))
                      a2 == Max(Sub(F(1, 1), Pow2(Div(F(2, 5), Ta))), F(0, 1))
                      zh == Div(z, h)
                  IN  Returns(Tuple(<<HfPeriod(zh, a1, a2), a1, a2>>))

\* Integer square root, and math.sqrt of a rational q >= 0: the float root
\* when numerator and denominator are squares, the symbolic root otherwise.
RECURSIVE IsqrtFrom(_, _)
IsqrtFrom(n, k) == IF (k + 1) * (k + 1) > n THEN k ELSE IsqrtFrom(n, k + 1)

Isqrt(n) == IsqrtFrom(n, 0)

IsSquare(n) == Isqrt(n) * Isqrt(n) = n

Sqrt(q) ==
    IF IsSquare(q.n) /\ IsSquare(q.d) THEN F(Isqrt(q.n), Isqrt(q.d))
    ELSE [t |-> "sqrt", n |-> q.n, d |-> q.d]

\* The square of a non-negative value (a float or a symbolic root).
Square(v) == IF v.t = "sqrt" THEN F(v.n, v.d) ELSE Mul(v, v)

\* (mutant of MaxRoot: the floor is left out)
MaxRoot_off(a, b) == a

\* Python's max(a, b) where a may be a symbolic root: both are >= 0 here, so
\* b > a exactly when b*b > a*a.
MaxRoot(a, b) == IF Gt(Square(b), Square(a)) THEN b ELSE a

\* 1.1 * R / (Ie * Omega_0) raises ZeroDivisionError when Ie * Omega_0 = 0
\* (caught: 1.3); math.sqrt of a negative number raises ValueError and
\* arithmetic on None raises TypeError (neither is caught).
calculate_rmu(R, Ie, Omega_0) ==
    IF ~IsFloat(R) \/ ~Num(Ie, Omega_0) THEN Raises("TypeError")
    ELSE LET den == Mul(Ie, Omega_0)
         IN  IF IsZero(den) THEN Returns(F(13, 10))
             ELSE LET q == Div(Mul(F(11, 10), R), den)
                  IN  IF Lt(q, F(0, 1)) THEN Raises("ValueError")
                      ELSE Returns(MaxRoot(Sqrt(q), F(13, 10)))

(* ------------------------------------------------------------------ *)
(* Approximate period (src/fpcalc.py 38-47)                            *)
(* ------------------------------------------------------------------ *)

\* b ** e for floats b >= 0 and e > 0.  The float is written out where it is
\* rational: e = 1, b = 0, b = 1, and e = 0.5 with b a rational square.
\* Any other power is carried as the term [t |-> "pow", b, e].
Power(b, e) ==
    IF ~Num(b, e) THEN TypeError
    ELSE IF e = F(1, 1) \/ b = F(0, 1) \/ b = F(1, 1) THEN b
    ELSE IF e = F(1, 2) /\ IsSquare(b.n) /\ IsSquare(b.d) THEN Sqrt(b)
    ELSE [t |-> "pow", b |-> b, e |-> e]

\* k * p where p is a float or a power term.
Times(k, p) ==
    IF p.t = "pow" /\ IsFloat(k) THEN [t |-> "times", k |-> k, p |-> p]
    ELSE Mul(k, p)

\* (mutant of PeriodOf: Ct and x change places in the result)
PeriodOf_swapped(row, hn) ==
    Tuple(<<Times(row["Ct"], Power(hn, row["x"])), row["x"], row["Ct"]>>)

\* Ct = row["Ct"]; x = row["x"]; Ta = Ct * hn ** x; return Ta, Ct, x
PeriodOf(row, hn) ==
    Tuple(<<Times(row["Ct"], Power(hn, row["x"])), row["Ct"], row["x"]>>)

\* The key of the period table is "Structure Type " (with the trailing blank).
\* hn ** x raises TypeError when hn is no number.
calculate_ta(period_data, structure_type, hn) ==
    IF IsNone(structure_type) THEN Returns(Tuple(<<None, None, None>>))
    ELSE LET i == FirstMatch(period_data, "Structure Type ", structure_type)
         IN  IF i = 0 THEN Returns(Tuple(<<None, None, None>>))
             ELSE IF ~IsFloat(hn) THEN Raises("TypeError")
             ELSE Returns(PeriodOf(period_data[i], hn))

(* ------------------------------------------------------------------ *)
(* Coefficient functions (src/fpcalc.py 72-92)                         *)
(* ------------------------------------------------------------------ *)

\* (mutant of Clamp: the lower limit is left out)
Clamp_upper(Fp_calc, Fp_min, Fp_max) == Min(Fp_calc, Fp_max)

\* max(min(Fp_calc, Fp_max), Fp_min)
Clamp(Fp_calc, Fp_min, Fp_max) == Max(Min(Fp_calc, Fp_max), Fp_min)

\* Operands are evaluated left to right: 0.4 * ap * SDS, then Rp / Ip
\* (ZeroDivisionError when Ip = 0), then the division by it (ZeroDivisionError
\* when it is 0), then 1 + 2 * z_over_h.
calculate_fp_coeff_16(SDS, Ip, ap, Rp, z_over_h) ==
    IF ~Num(ap, SDS) \/ ~Num(Rp, Ip) THEN Raises("TypeError")
    ELSE IF IsZero(Ip) \/ IsZero(Div(Rp, Ip)) THEN Raises("ZeroDivisionError")
    ELSE IF ~IsFloat(z_over_h) THEN Raises("TypeError")
    ELSE LET Fp_calc == Mul(Div(Mul(Mul(F(2, 5), ap), SDS), Div(Rp, Ip)),
                            Add(F(1, 1), Mul(F(2, 1), z_over_h)))
             Fp_min == Mul(Mul(F(3, 10), SDS), Ip)
             Fp_max == Mul(Mul(F(8, 5), SDS), Ip)
             Fp == Clamp(Fp_calc, Fp_min, Fp_max)
         IN  Returns(Tuple(<<Fp, Fp_calc, Fp_min, Fp_max>>))

\* 0.4 * SDS * Ip, then Hf / Rmu (ZeroDivisionError when Rmu = 0), then
\* CAR / Rpo (ZeroDivisionError when Rpo = 0).
calculate_fp_coeff_22(SDS, Ip, Hf, Rmu, CAR, Rpo) ==
    IF ~Num(SDS, Ip) \/ ~Num(Hf, Rmu) THEN Raises("TypeError")
    ELSE IF IsZero(Rmu) THEN Raises("ZeroDivisionError")
    ELSE IF ~Num(CAR, Rpo) THEN Raises("TypeError")
    ELSE IF IsZero(Rpo) THEN Raises("ZeroDivisionError")
    ELSE LET Fp_calc == Mul(Mul(Mul(Mul(F(2, 5), SDS), Ip), Div(Hf, Rmu)),
                            Div(CAR, Rpo))
             Fp_min == Mul(Mul(F(3, 10), SDS), Ip)
             Fp_max == Mul(Mul(F(8, 5), SDS), Ip)
             Fp == Clamp(Fp_calc, Fp_min, Fp_max)
         IN  Returns(Tuple(<<Fp, Fp_calc, Fp_min, Fp_max>>))

(* ------------------------------------------------------------------ *)
(* Bounded inputs                                                      *)
(* ------------------------------------------------------------------ *)

MaxNameLen == 2
MaxRows == 2
MaxHeight == 3
MaxTaFifths == 6
MaxSDSHalves == 3
MaxR == 4

Alphabet == {"a", "A", " "}

RECURSIVE SeqsUpTo(_, _)
SeqsUpTo(S, k) ==
    IF k = 0 THEN {<<>>}
    ELSE LET shorter == SeqsUpTo(S, k - 1)
         IN  shorter \cup {Append(s, x) : s \in {u \in shorter : Len(u) = k - 1}, x \in S}

\* Names a caller may pass: every string of 1..MaxNameLen characters.
Names == {Str(s) : s \in SeqsUpTo(Alphabet, MaxNameLen) \ {<<>>}}

NameOrNone == Names \cup {None}

\* Keys stored in the tables: differing in case and padding, and one other name.
TableKeys == {Str(<<"a">>), Str(<<"A", " ">>), Str(<<"a", "a">>)}

SfrsRows ==
    {[SFRS |-> k, R |-> f[1], Omega |-> f[2]] :
        k \in TableKeys, f \in {<<F(8, 1), F(3, 1)>>, <<F(3, 2), F(5, 2)>>}}

ComponentFactors ==
    {[CAR_below |-> F(1, 1), CAR_above |-> F(5, 2), Rpo |-> F(3, 2), Omega |-> F(2, 1),
      ap_16 |-> F(5, 2), Rp_16 |-> F(5, 2), Omega_16 |-> F(2, 1)],
     [CAR_below |-> F(7, 5), CAR_above |-> F(11, 5), Rpo |-> F(2, 1), Omega |-> None,
      ap_16 |-> F(1, 1), Rp_16 |-> F(3, 2), Omega_16 |-> None]}

ComponentRows ==
    {[Component |-> k, CAR_below |-> f.CAR_below, CAR_above |-> f.CAR_above,
      Rpo |-> f.Rpo, Omega |-> f.Omega, ap_16 |-> f.ap_16, Rp_16 |-> f.Rp_16,
      Omega_16 |-> f.Omega_16] : k \in TableKeys, f \in ComponentFactors}

SfrsTables == SeqsUpTo(SfrsRows, MaxRows)

ComponentTables == SeqsUpTo(ComponentRows, MaxRows)

\* Records of the period table: Ct and x of ASCE 7 (0.028, 0.8), and a pair
\* with x = 0.5, for which the period is rational at square heights.
PeriodFactors == {<<F(7, 250), F(4, 5)>>, <<F(1, 10), F(1, 2)>>}

PeriodRows ==
    {("Structure Type " :> k) @@ ("Ct" :> f[1]) @@ ("x" :> f[2]) :
        k \in TableKeys, f \in PeriodFactors}

PeriodTables == SeqsUpTo(PeriodRows, MaxRows)

Locations == {"Supported Above Grade", "Supported At or Below Grade"}

Heights == {F(k, 1) : k \in 0..MaxHeight}

Periods == {F(k, 5) : k \in (-1)..MaxTaFifths} \cup {None}

SDSValues == {F(k, 2) : k \in (-1)..MaxSDSHalves}

IpValues == {F(0, 1), F(1, 1), F(3, 2)}

apValues == {F(-1, 1), F(1, 1), F(5, 2)}

RpValues == {F(0, 1), F(3, 2), F(5, 2), F(12, 1)}

zOverHValues == {F(0, 1), F(1, 2), F(1, 1)}

HfValues == {F(1, 1), F(9, 4), F(7, 2)}

RmuValues == {F(0, 1), F(13, 10), F(2, 1)}

CARValues == {F(-1, 1), F(1, 1), F(5, 2)}

RpoValues == {F(0, 1), F(1, 1), F(3, 2)}

RValues == {F(k, 2) : k \in (-2)..(2 * MaxR)}

IeValues == {F(0, 1), F(1, 1), F(5, 4), F(3, 2)}

OmegaValues == {F(0, 1), F(1, 1), F(2, 1), F(5, 2), F(3, 1)}

(* ------------------------------------------------------------------ *)
(* The engine as a state machine: a caller picks a function and its    *)
(* arguments, the call runs to its outcome, the caller takes it.       *)
(* ------------------------------------------------------------------ *)

Init ==
    /\ pc = "idle"
    /\ fn = "none"
    /\ args = <<>>
    /\ ret = Returns(None)
    /\ sds_value = None
    /\ sds_location = None
    /\ sds_params = None
    /\ ui = None
    /\ run = None

Call_get_sfrs_factors ==
    /\ pc = "idle"
    /\ \E data \in SfrsTables, name \in NameOrNone :
           /\ pc' = "done"
           /\ fn' = "get_sfrs_factors"
           /\ args' = <<data, name>>
           /\ ret' = get_sfrs_factors(data, name)
           /\ UNCHANGED app

Call_get_component_factors ==
    /\ pc = "idle"
    /\ \E data \in ComponentTables, name \in NameOrNone, loc \in Locations :
           /\ pc' = "done"
           /\ fn' = "get_component_factors"
           /\ args' = <<data, name, loc>>
           /\ ret' = get_component_factors(data, name, loc)
           /\ UNCHANGED app

Call_get_component_factors_16 ==
    /\ pc = "idle"
    /\ \E data \in ComponentTables, name \in NameOrNone :
           /\ pc' = "done"
           /\ fn' = "get_component_factors_16"
           /\ args' = <<data, name>>
           /\ ret' = get_component_factors_16(data, name)
           /\ UNCHANGED app

Call_calculate_ta ==
    /\ pc = "idle"
    /\ \E data \in PeriodTables, name \in NameOrNone, hn \in Heights :
           /\ pc' = "done"
           /\ fn' = "calculate_ta"
           /\ args' = <<data, name, hn>>
           /\ ret' = calculate_ta(data, name, hn)
           /\ UNCHANGED app

Call_calculate_hf ==
    /\ pc = "idle"
    /\ \E z \in Heights, h \in Heights, Ta \in Periods :
           /\ pc' = "done"
           /\ fn' = "calculate_hf"
           /\ args' = <<z, h, Ta>>
           /\ ret' = calculate_hf(z, h, Ta)
           /\ UNCHANGED app

Call_calculate_rmu ==
    /\ pc = "idle"
    /\ \E R \in RValues, Ie \in IeValues, Omega_0 \in OmegaValues :
           /\ pc' = "done"
           /\ fn' = "calculate_rmu"
           /\ args' = <<R, Ie, Omega_0>>
           /\ ret' = calculate_rmu(R, Ie, Omega_0)
           /\ UNCHANGED app

Call_calculate_fp_coeff_16 ==
    /\ pc = "idle"
    /\ \E SDS \in SDSValues, Ip \in IpValues, ap \in apValues, Rp \in RpValues,
          zh \in zOverHValues :
           /\ pc' = "done"
           /\ fn' = "calculate_fp_coeff_16"
           /\ args' = <<SDS, Ip, ap, Rp, zh>>
           /\ ret' = calculate_fp_coeff_16(SDS, Ip, ap, Rp, zh)
           /\ UNCHANGED app

Call_calculate_fp_coeff_22 ==
    /\ pc = "idle"
    /\ \E SDS \in SDSValues, Ip \in IpValues, Hf \in HfValues, Rmu \in RmuValues,
          CAR \in CARValues, Rpo \in RpoValues :
           /\ pc' = "done"
           /\ fn' = "calculate_fp_coeff_22"
           /\ args' = <<SDS, Ip, Hf, Rmu, CAR, Rpo>>
           /\ ret' = calculate_fp_coeff_22(SDS, Ip, Hf, Rmu, CAR, Rpo)
           /\ UNCHANGED app

\* The caller has taken the outcome; the engine keeps no state between calls.
Return ==
    /\ pc = "done"
    /\ pc' = "idle"
    /\ fn' = "none"
    /\ args' = <<>>
    /\ ret' = Returns(None)
    /\ UNCHANGED app

Next ==
    \/ Call_get_sfrs_factors
    \/ Call_get_component_factors
    \/ Call_get_component_factors_16
    \/ Call_calculate_ta
    \/ Call_calculate_hf
    \/ Call_calculate_rmu
    \/ Call_calculate_fp_coeff_16
    \/ Call_calculate_fp_coeff_22
    \/ Return

Spec == Init /\ [][Next]_vars

(* ------------------------------------------------------------------ *)
(* The application script (src/app.py 76-383).  Streamlit runs the     *)
(* script from top to bottom after every widget event; st.stop() ends  *)
(* the run, st.session_state survives it.  The runs modelled are those *)
(* that pass the authentication prologue (src/app.py 35-36); layout,   *)
(* captions, the map and the report are left out.                      *)
(* ------------------------------------------------------------------ *)

\* The tables loaded from data/*.json (src/app.py 67-70).  Component "a" has an
\* overstrength factor in both editions; "b" has no ASCE 7-16 factors and no
\* ASCE 7-22 overstrength factor; "aa" has an overstrength factor in ASCE 7-22
\* only.  There is one structural system, and one structure type, whose
\* period is rational at the modelled roof heights.
arch_components ==
    <<[Component |-> Str(<<"a">>), CAR_below |-> F(1, 1), CAR_above |-> F(5, 2),
       Rpo |-> F(3, 2), Omega |-> F(2, 1),
       ap_16 |-> F(5, 2), Rp_16 |-> F(5, 2), Omega_16 |-> F(2, 1)],
      [Component |-> Str(<<"b">>), CAR_below |-> F(1, 1), CAR_above |-> F(1, 1),
       Rpo |-> F(3, 2), Omega |-> None,
       ap_16 |-> None, Rp_16 |-> None, Omega_16 |-> None]>>

mech_components ==
    <<[Component |-> Str(<<"a", "a">>), CAR_below |-> F(7, 5), CAR_above |-> F(11, 5),
       Rpo |-> F(2, 1), Omega |-> F(7, 4),
       ap_16 |-> F(1, 1), Rp_16 |-> F(3, 2), Omega_16 |-> None]>>

sfrs_data == <<[SFRS |-> Str(<<"a">>), R |-> F(3, 2), Omega |-> F(5, 2)]>>

period_data ==
    <<("Structure Type " :> Str(<<"a", " ">>)) @@ ("Ct" :> F(1, 10)) @@ ("x" :> F(1, 2))>>

\* The values the code gives to a name whose widget is not shown.
NotRequired == Str(<<"Not Required for ASCE 7-16">>)

ManualInput == Str(<<"Manual Input">>)

\* Ie = {"I": 1.0, "II": 1.0, "III": 1.25, "IV": 1.5}[risk_category]
Ie(risk_category) ==
    CASE risk_category = "I" -> F(1, 1)
      [] risk_category = "II" -> F(1, 1)
      [] risk_category = "III" -> F(5, 4)
      [] risk_category = "IV" -> F(3, 2)

component_data(w) ==
    IF w.component_category = "Architectural" THEN arch_components
    ELSE mech_components

component_location(z) ==
    IF Gt(z, F(0, 1)) THEN "Supported Above Grade" ELSE "Supported At or Below Grade"

\* One call of an engine function made by a run.
CallOf(f, a, r) == [fn |-> f, args |-> a, ret |-> r]

\* The lookups made to caption the selected component (src/app.py 107-117).
DisplayCalls(w) ==
    IF IsNone(w.component_name) THEN <<>>
    ELSE LET data == component_data(w)
             name == w.component_name
         IN  (IF w.asce_7_16
              THEN <<CallOf("get_component_factors_16", <<data, name>>,
                            get_component_factors_16(data, name))>>
              ELSE <<>>)
             \o
             (IF w.asce_7_22
              THEN <<CallOf("get_component_factors",
                            <<data, name, "Supported Above Grade">>,
                            get_component_factors(data, name, "Supported Above Grade")),
                     CallOf("get_component_factors",
                            <<data, name, "Supported At or Below Grade">>,
                            get_component_factors(data, name,
                                                  "Supported At or Below Grade"))>>
              ELSE <<>>)

\* Structural system parameters: selected_sfrs, R, Omega_0 (src/app.py 140-160).
SfrsStep(w) ==
    IF ~w.asce_7_22
    THEN [selected_sfrs |-> NotRequired, R |-> F(1, 1), Omega_0 |-> F(1, 1),
          calls |-> <<>>]
    ELSE IF w.r_mode = "Use SFRS"
    THEN LET out == get_sfrs_factors(sfrs_data, w.selected_sfrs)
         IN  [selected_sfrs |-> w.selected_sfrs,
              R |-> out.val.items[1], Omega_0 |-> out.val.items[2],
              calls |-> <<CallOf("get_sfrs_factors",
                                 <<sfrs_data, w.selected_sfrs>>, out)>>]
    ELSE [selected_sfrs |-> ManualInput, R |-> w.R, Omega_0 |-> w.Omega_0,
          calls |-> <<>>]

\* Approximate period: ta_mode, Ta (src/app.py 162-186).
TaStep(w) ==
    IF ~w.asce_7_22
    THEN [ta_mode |-> "Not Required for ASCE 7-16", Ta |-> None, calls |-> <<>>]
    ELSE IF w.ta_mode = "Calculate from structure type"
    THEN LET out == calculate_ta(period_data, w.selected_structure_type, w.h)
         IN  [ta_mode |-> w.ta_mode,
              Ta |-> out.val.items[1],
              calls |-> <<CallOf("calculate_ta",
                                 <<period_data, w.selected_structure_type, w.h>>,
                                 out)>>]
    ELSE IF w.ta_mode = "Manual input"
    THEN [ta_mode |-> w.ta_mode, Ta |-> w.Ta, calls |-> <<>>]
    ELSE [ta_mode |-> w.ta_mode, Ta |-> None, calls |-> <<>>]

\* The value the USGS service holds for a site: a function of the request's
\* parameters, different for different parameters of the modelled requests.
UsgsSds(lat, lon, risk_category, site_class) ==
    F(1 + (IF lat = F(189, 5) THEN 0 ELSE 4)
        + (IF risk_category = "II" THEN 0 ELSE 2)
        + (IF site_class = "D" THEN 0 ELSE 1), 4)

\* fetch_sds_cached: the value of the service, or the exception of a request
\* that fails (requests.get, raise_for_status, the JSON path, float()).
fetch_sds_cached(lat, lon, risk_category, site_class, response) ==
    IF response = "ok" THEN Returns(UsgsSds(lat, lon, risk_category, site_class))
    ELSE Raises("Exception")

current_params(w) == Tuple(<<w.lat, w.lon, w.risk_category, w.site_class>>)

\* (mutant of has_cached_sds: the stored parameters are not compared)
has_cached_sds_any(value, params, cur) ==
    /\ ~IsNone(value)
    /\ ~IsNone(cur.items[1]) /\ ~IsNone(cur.items[2])

\* st.session_state.sds_value is not None and st.session_state.sds_params ==
\* current_params and lat is not None and lon is not None
has_cached_sds(value, params, cur) ==
    /\ ~IsNone(value)
    /\ params = cur
    /\ ~IsNone(cur.items[1]) /\ ~IsNone(cur.items[2])

\* f"{lat:.6f}, {lon:.6f}"
LocationText(lat, lon) == Str(<<lat, ",", " ", lon>>)

\* Seismic parameters: SDS and the session keys after the step
\* (src/app.py 192-306).
SdsStep(w, value, location, params) ==
    LET keep == [sds_value |-> value, sds_location |-> location, sds_params |-> params]
    IN  IF w.sds_mode = "Fetch from USGS"
        THEN IF ~IsNone(w.lat) /\ ~IsNone(w.lon) /\ w.button
             THEN LET out == fetch_sds_cached(w.lat, w.lon, w.risk_category,
                                              w.site_class, w.response)
                  IN  IF out.exc = "none"
                      THEN [SDS |-> out.val, sds_value |-> out.val,
                            sds_location |-> LocationText(w.lat, w.lon),
                            sds_params |-> current_params(w)]
                      ELSE [SDS |-> None] @@ keep
             ELSE IF has_cached_sds(value, params, current_params(w))
             THEN [SDS |-> value] @@ keep
             ELSE [SDS |-> None] @@ keep
        ELSE [SDS |-> w.SDS] @@ keep

\* (mutant of RequiredMissing: the check of SDS is left out)
RequiredMissing_nosds(asce_7_22, component_name, selected_sfrs, ta_mode, Ta, SDS) ==
    IF IsNone(component_name) THEN "component"
    ELSE IF asce_7_22 /\ IsNone(selected_sfrs) THEN "sfrs"
    ELSE IF asce_7_22 /\ ta_mode # "Unknown" /\ IsNone(Ta) THEN "period"
    ELSE "none"

\* The checks that end the run with st.stop() (src/app.py 309-327): the
\* required value that is missing, "none" when the run goes on.
RequiredMissing(asce_7_22, component_name, selected_sfrs, ta_mode, Ta, SDS) ==
    IF IsNone(component_name) THEN "component"
    ELSE IF asce_7_22 /\ IsNone(selected_sfrs) THEN "sfrs"
    ELSE IF asce_7_22 /\ ta_mode # "Unknown" /\ IsNone(Ta) THEN "period"
    ELSE IF IsNone(SDS) THEN "sds"
    ELSE "none"

\* z_over_h = z / h if h > 0 else 0
ZOverH(z, h) == IF Gt(h, F(0, 1)) THEN Div(z, h) ELSE F(0, 1)

\* A run is carried as [stopped, exc, calls, Hf, Rmu, results]: the check
\* that stopped it ("none" when it goes on), the exception that ended it
\* ("none" when none did), the engine calls made so far, and the values
\* computed so far.
NoResults == [v \in {} |-> None]

\* The run up to the checks of the required values (src/app.py 76-327).
Begin(w, sfrs, ta, sds) ==
    [stopped |-> RequiredMissing(w.asce_7_22, w.component_name,
                                 sfrs.selected_sfrs, ta.ta_mode, ta.Ta, sds.SDS),
     exc |-> "none",
     calls |-> DisplayCalls(w) \o sfrs.calls \o ta.calls,
     Hf |-> None, Rmu |-> None, results |-> NoResults]

\* The run goes on: no st.stop() and no exception so far.
Running(e) == e.stopped = "none" /\ e.exc = "none"

\* The outcome of a call the run does not make.
Skipped == [exc |-> "skipped", val |-> None]

\* The run after the call f(a) has ended in out: the call is on record, and
\* an exception it raised ends the run.
After(e, f, a, out) ==
    IF out.exc = "skipped" THEN e
    ELSE [e EXCEPT !.calls = Append(@, CallOf(f, a, out)), !.exc = out.exc]

\* Hf, a1, a2 = calculate_hf(z, h, Ta): unpacking a result that is no tuple
\* raises TypeError (src/app.py 334).
TakeHf(e, out) ==
    IF out.exc # "none" THEN e
    ELSE IF out.val.t # "tuple" THEN [e EXCEPT !.exc = "TypeError"]
    ELSE [e EXCEPT !.Hf = out.val.items[1]]

\* Rmu = calculate_rmu(R, Ie, Omega_0) (src/app.py 335)
TakeRmu(e, out) ==
    IF out.exc # "none" THEN e ELSE [e EXCEPT !.Rmu = out.val]

\* (mutant of WithEmh: an absent overstrength factor gives outputs of zero)
WithEmh_zero(result, Omega, Fp_coeff, Wp) ==
    IF ~IsNone(Omega)
    THEN result @@ [Emh_coeff |-> Mul(Omega, Fp_coeff),
                    Emh |-> Mul(Mul(Omega, Fp_coeff), Wp)]
    ELSE result @@ [Emh_coeff |-> F(0, 1), Emh |-> F(0, 1)]

\* if Omega is not None: result["Emh_coeff"] = Omega * Fp_coeff;
\* result["Emh"] = Omega * Fp_coeff * Wp
WithEmh(result, Omega, Fp_coeff, Wp) ==
    IF ~IsNone(Omega)
    THEN result @@ [Emh_coeff |-> Mul(Omega, Fp_coeff),
                    Emh |-> Mul(Mul(Omega, Fp_coeff), Wp)]
    ELSE result

\* results["7-16"], from the outcome f of the lookup and the outcome c of
\* calculate_fp_coeff_16 (src/app.py 345-362).
Result16(e, w, f, c) ==
    IF f.exc # "none" THEN e
    ELSE IF IsNone(f.val.items[1]) THEN [e EXCEPT !.results = @ @@ ("7-16" :> None)]
    ELSE IF c.exc # "none" THEN e
    ELSE [e EXCEPT !.results = @ @@ ("7-16" :>
            WithEmh([t |-> "dict", Fp_coeff |-> c.val.items[1], Fp_calc_coeff |-> c.val.items[2],
                     Fp_min_coeff |-> c.val.items[3], Fp_max_coeff |-> c.val.items[4],
                     Fp |-> Mul(c.val.items[1], w.Wp),
                     ap |-> f.val.items[1], Rp |-> f.val.items[2],
                     Omega |-> f.val.items[3]],
                    f.val.items[3], c.val.items[1], w.Wp))]

\* results["7-22"], from the outcome f of the lookup and the outcome c of
\* calculate_fp_coeff_22 (src/app.py 366-383).
Result22(e, w, f, c) ==
    IF f.exc # "none" THEN e
    ELSE IF IsNone(f.val.items[1]) THEN [e EXCEPT !.results = @ @@ ("7-22" :> None)]
    ELSE IF c.exc # "none" THEN e
    ELSE [e EXCEPT !.results = @ @@ ("7-22" :>
            WithEmh([t |-> "dict", Fp_coeff |-> c.val.items[1], Fp_calc_coeff |-> c.val.items[2],
                     Fp_min_coeff |-> c.val.items[3], Fp_max_coeff |-> c.val.items[4],
                     Fp |-> Mul(c.val.items[1], w.Wp),
                     CAR |-> f.val.items[1], Rpo |-> f.val.items[2],
                     Omega |-> f.val.items[3]],
                    f.val.items[3], c.val.items[1], w.Wp))]

\* What a run leaves on display.
RunRecord(e, sfrs, ta, sds) ==
    [t |-> "run", stopped |-> e.stopped, exc |-> e.exc,
     selected_sfrs |-> sfrs.selected_sfrs, ta_mode |-> ta.ta_mode, Ta |-> ta.Ta,
     SDS |-> sds.SDS, calls |-> e.calls, results |-> e.results]

(* ------------------------------------------------------------------ *)
(* Widget values of a run                                              *)
(* ------------------------------------------------------------------ *)

ComponentChoices ==
    {[component_category |-> "Architectural", component_name |-> None],
     [component_category |-> "Architectural", component_name |-> Str(<<"a">>)],
     [component_category |-> "Architectural", component_name |-> Str(<<"b">>)],
     [component_category |-> "Mechanical/Electrical",
      component_name |-> Str(<<"a", "a">>)]}

\* Ip is one of 1.0 and 1.5, Wp >= 0, z >= 0 and h >= 1: an attachment at
\* grade, one above the roof, one at the roof.
BuildingChoices ==
    {[risk_category |-> r, Ip |-> g[1], Wp |-> g[2], z |-> g[3], h |-> g[4]] :
        r \in {"II", "IV"},
        g \in {<<F(1, 1), F(0, 1), F(0, 1), F(1, 1)>>,
               <<F(3, 2), F(100, 1), F(4, 1), F(1, 1)>>,
               <<F(1, 1), F(100, 1), F(4, 1), F(4, 1)>>}}

\* R >= 1 and Omega_0 >= 1 when entered by hand.
SfrsChoices ==
    {[r_mode |-> "Use SFRS", selected_sfrs |-> None, R |-> None, Omega_0 |-> None],
     [r_mode |-> "Use SFRS", selected_sfrs |-> Str(<<"a">>), R |-> None,
      Omega_0 |-> None],
     [r_mode |-> "Manual input", selected_sfrs |-> None, R |-> F(9, 2),
      Omega_0 |-> F(11, 5)]}

\* Ta >= 0.01 when entered by hand.
TaChoices ==
    {[ta_mode |-> "Calculate from structure type", selected_structure_type |-> None,
      Ta |-> None],
     [ta_mode |-> "Calculate from structure type",
      selected_structure_type |-> Str(<<"a", " ">>), Ta |-> None],
     [ta_mode |-> "Manual input", selected_structure_type |-> None, Ta |-> F(1, 1)],
     [ta_mode |-> "Unknown", selected_structure_type |-> None, Ta |-> None]}

\* The widgets of both groups are shown only with ASCE 7-22.
SfrsWidgets(asce_7_22) ==
    IF asce_7_22 THEN SfrsChoices
    ELSE {[r_mode |-> "-", selected_sfrs |-> None, R |-> None, Omega_0 |-> None]}

TaWidgets(asce_7_22) ==
    IF asce_7_22 THEN TaChoices
    ELSE {[ta_mode |-> "-", selected_structure_type |-> None, Ta |-> None]}

\* Latitude and longitude as entered, or as the geocoder resolved the address
\* (both None when it did not).
Sites ==
    {[coord_mode |-> "Manual Lat/Lon", lat |-> F(189, 5), lon |-> F(-611, 5)],
     [coord_mode |-> "Manual Lat/Lon", lat |-> F(34, 1), lon |-> F(-118, 1)],
     [coord_mode |-> "Address", lat |-> None, lon |-> None]}

\* button: the fetch button was pressed for this run (it is only shown when
\* lat and lon are resolved); response: how the request of this run ends.
SdsChoices ==
    LET fetch == {[sds_mode |-> "Fetch from USGS", coord_mode |-> s.coord_mode,
                   lat |-> s.lat, lon |-> s.lon, site_class |-> c,
                   button |-> b[1], response |-> b[2], SDS |-> None] :
                     s \in Sites, c \in {"D", "Default"},
                     b \in {<<FALSE, "-">>, <<TRUE, "ok">>, <<TRUE, "error">>}}
    IN  {[sds_mode |-> "Manual input", coord_mode |-> "-", lat |-> None,
          lon |-> None, site_class |-> "-", button |-> FALSE, response |-> "-",
          SDS |-> F(1, 1)]}
        \cup {x \in fetch : x.button => ~IsNone(x.lat)}

(* ------------------------------------------------------------------ *)
(* The application as a state machine: a widget event runs the script, *)
(* the page then waits for the next event.                             *)
(* ------------------------------------------------------------------ *)

\* Neither edition is ticked: the run stops before any other widget
\* (src/app.py 83-85).
Rerun_no_version ==
    /\ IsNone(run)
    /\ ui' = [t |-> "ui", asce_7_16 |-> FALSE, asce_7_22 |-> FALSE]
    /\ run' = [t |-> "run", stopped |-> "version", exc |-> "none",
               selected_sfrs |-> None, ta_mode |-> "-", Ta |-> None, SDS |-> None,
               calls |-> <<>>, results |-> NoResults]
    /\ UNCHANGED <<sds_value, sds_location, sds_params>>
    /\ UNCHANGED engine

\* One run of the script on the widget values w, step by step in the order of
\* the code; a step that the run does not reach is skipped.
Rerun ==
    /\ IsNone(run)
    /\ \E v \in {<<TRUE, TRUE>>, <<TRUE, FALSE>>, <<FALSE, TRUE>>},
          c \in ComponentChoices, b \in BuildingChoices, q \in SdsChoices :
        \E s \in SfrsWidgets(v[2]), p \in TaWidgets(v[2]) :
        \E w \in {[t |-> "ui", asce_7_16 |-> v[1], asce_7_22 |-> v[2]]
                   @@ c @@ b @@ s @@ p @@ q} :
        \E sfrs \in {SfrsStep(w)}, ta \in {TaStep(w)},
           sds \in {SdsStep(w, sds_value, sds_location, sds_params)} :
        \E e0 \in {Begin(w, sfrs, ta, sds)},
           z_over_h \in {ZOverH(w.z, w.h)},
           data \in {component_data(w)},
           loc \in {component_location(w.z)},
           ie \in {Ie(w.risk_category)} :
        \E hf \in {IF Running(e0) /\ w.asce_7_22
                    THEN calculate_hf(w.z, w.h, ta.Ta) ELSE Skipped} :
        \E e1 \in {TakeHf(After(e0, "calculate_hf", <<w.z, w.h, ta.Ta>>, hf), hf)} :
        \E rmu \in {IF Running(e1) /\ w.asce_7_22
                     THEN calculate_rmu(sfrs.R, ie, sfrs.Omega_0) ELSE Skipped} :
        \E e2 \in {TakeRmu(After(e1, "calculate_rmu",
                                 <<sfrs.R, ie, sfrs.Omega_0>>, rmu), rmu)} :
        \E f16 \in {IF Running(e2) /\ w.asce_7_16
                     THEN get_component_factors_16(data, w.component_name)
                     ELSE Skipped} :
        \E e3 \in {After(e2, "get_component_factors_16",
                         <<data, w.component_name>>, f16)} :
        \E c16 \in {IF f16.exc = "none" /\ ~IsNone(f16.val.items[1])
                     THEN calculate_fp_coeff_16(sds.SDS, w.Ip, f16.val.items[1],
                                                f16.val.items[2], z_over_h)
                     ELSE Skipped} :
        \E e4 \in {Result16(After(e3, "calculate_fp_coeff_16",
                                  <<sds.SDS, w.Ip, f16.val.items[1],
                                    f16.val.items[2], z_over_h>>, c16),
                            w, f16, c16)} :
        \E f22 \in {IF Running(e4) /\ w.asce_7_22
                     THEN get_component_factors(data, w.component_name, loc)
                     ELSE Skipped} :
        \E e5 \in {After(e4, "get_component_factors",
                         <<data, w.component_name, loc>>, f22)} :
        \E c22 \in {IF f22.exc = "none" /\ ~IsNone(f22.val.items[1])
                     THEN calculate_fp_coeff_22(sds.SDS, w.Ip, e5.Hf, e5.Rmu,
                                                f22.val.items[1], f22.val.items[2])
                     ELSE Skipped} :
        \E e6 \in {Result22(After(e5, "calculate_fp_coeff_22",
                                  <<sds.SDS, w.Ip, e5.Hf, e5.Rmu,
                                    f22.val.items[1], f22.val.items[2]>>, c22),
                            w, f22, c22)} :
            /\ ui' = w
            /\ run' = RunRecord(e6, sfrs, ta, sds)
            /\ sds_value' = sds.sds_value
            /\ sds_location' = sds.sds_location
            /\ sds_params' = sds.sds_params
            /\ UNCHANGED engine

\* The page shows the run and waits; the next event starts a new run.
Await ==
    /\ ~IsNone(run)
    /\ ui' = None
    /\ run' = None
    /\ UNCHANGED <<sds_value, sds_location, sds_params>>
    /\ UNCHANGED engine

NextApp ==
    \/ Rerun_no_version
    \/ Rerun
    \/ Await

SpecApp == Init /\ [][NextApp]_vars


(* ------------------------------------------------------------------ *)
(* Properties                                                          *)
(* ------------------------------------------------------------------ *)

Done(f) == pc = "done" /\ fn = f

Zero == F(0, 1)

One == F(1, 1)

Ones3 == Returns(Tuple(<<One, One, One>>))

CoeffCall == Done("calculate_fp_coeff_16") \/ Done("calculate_fp_coeff_22")

\* C1: for SDS >= 0 and Ip > 0, whenever a coefficient function returns, its
\* result has Fp_min = 0.3*SDS*Ip, Fp_max = 1.6*SDS*Ip, Fp_min <= Fp_max and
\* Fp_min <= Fp_coeff <= Fp_max, whatever Fp_calc is.
C1_CoeffWithinLimits ==
    (CoeffCall /\ Le(Zero, args[1]) /\ Gt(args[2], Zero) /\ ret.exc = "none") =>
        LET r == ret.val.items
        IN  /\ ret.val.t = "tuple" /\ Len(r) = 4
            /\ r[3] = Mul(Mul(F(3, 10), args[1]), args[2])
            /\ r[4] = Mul(Mul(F(8, 5), args[1]), args[2])
            /\ Le(r[3], r[4])
            /\ Le(r[3], r[1]) /\ Le(r[1], r[4])

\* Witness of C1: a call with SDS > 0, Ip > 0 whose Fp_calc lies below Fp_min
\* and is raised to it.
C1_Witness ==
    /\ Done("calculate_fp_coeff_16") /\ ret.exc = "none"
    /\ Gt(args[1], Zero) /\ Gt(args[2], Zero)
    /\ Lt(ret.val.items[2], ret.val.items[3])
    /\ ret.val.items[1] = ret.val.items[3]

\* C2 (as claimed): get_sfrs_factors called with None returns the same pair as
\* when it is called with a present name that matches no record of the table.
C2_NoneSameAsUnmatched ==
    (Done("get_sfrs_factors") /\ IsNone(args[2])) =>
        \A name \in Names :
            (\A i \in 1..Len(args[1]) : ~SameName(args[1][i].SFRS, name)) =>
                ret = get_sfrs_factors(args[1], name)

\* C3 (as claimed): calculate_hf never ends in a division fault, for every
\* z >= 0, every h including 0 and every Ta.
C3_HfNoDivisionFault ==
    (Done("calculate_hf") /\ Le(Zero, args[1])) => ret.exc # "ZeroDivisionError"

\* C4 (as claimed): calculate_hf returns a triple (Hf, a1-or-None, a2-or-None)
\* in every branch in which it returns.
C4_HfReturnsTriple ==
    (Done("calculate_hf") /\ ret.exc = "none") =>
        /\ ret.val.t = "tuple"
        /\ Len(ret.val.items) = 3

\* The ratio 1.1*R/(Ie*Omega_0) of a calculate_rmu call with Ie*Omega_0 # 0.
RmuRatio == Div(Mul(F(11, 10), args[1]), Mul(args[2], args[3]))

\* C5 (as claimed): calculate_rmu never raises, and returns 1.3 whenever the
\* square root cannot be taken (Ie*Omega_0 = 0 or a negative ratio).
C5_RmuNeverRaises ==
    Done("calculate_rmu") =>
        /\ ret.exc = "none"
        /\ (IsZero(Mul(args[2], args[3])) \/ Lt(RmuRatio, Zero)) => ret.val = F(13, 10)

\* C6: for R >= 1, Ie in {1.0, 1.25, 1.5} and Omega_0 >= 1, calculate_rmu
\* returns Rmu >= 1.3; Rmu = 1.3 exactly when 1.1*R/(Ie*Omega_0) <= 1.69, and
\* otherwise Rmu squared equals that ratio.
C6_RmuFloor ==
    (/\ Done("calculate_rmu")
     /\ Le(One, args[1])
     /\ args[2] \in {F(1, 1), F(5, 4), F(3, 2)}
     /\ Le(One, args[3])) =>
        /\ ret.exc = "none"
        /\ ret.val.t \in {"float", "sqrt"}
        /\ Le(F(169, 100), Square(ret.val))
        /\ (ret.val = F(13, 10)) <=> Le(RmuRatio, F(169, 100))
        /\ ~Le(RmuRatio, F(169, 100)) => Square(ret.val) = RmuRatio

\* Witness of C6: a call within the stated ranges whose root exceeds 1.3 and
\* is returned as it is.
C6_Witness ==
    /\ Done("calculate_rmu")
    /\ Le(One, args[1]) /\ args[2] = F(5, 4) /\ Le(One, args[3])
    /\ ret.exc = "none"
    /\ Gt(RmuRatio, F(169, 100))
    /\ Square(ret.val) = RmuRatio

\* C7 (as claimed): the coefficient functions are total: every call returns a
\* 4-tuple, also with Rp = 0, Ip = 0, Rmu = 0 or Rpo = 0.
C7_CoeffTotal ==
    CoeffCall =>
        /\ ret.exc = "none"
        /\ ret.val.t = "tuple"
        /\ Len(ret.val.items) = 4

ComponentCall == Done("get_component_factors") \/ Done("get_component_factors_16")

\* The factors a component lookup takes from a row.
RowFactors(row) ==
    IF fn = "get_component_factors_16" THEN <<row.ap_16, row.Rp_16, row.Omega_16>>
    ELSE <<IF args[3] = "Supported At or Below Grade" THEN row.CAR_below
           ELSE row.CAR_above, row.Rpo, row.Omega>>

\* C8: both component lookups return (1.0, 1.0, 1.0) when the name is None and
\* when it matches no record, without raising; when it matches, they return
\* the factors of the first matching record in table order.
C8_ComponentLookup ==
    ComponentCall =>
        LET data == args[1]
            name == args[2]
            hits == IF IsNone(name) THEN {}
                    ELSE {i \in 1..Len(data) : SameName(data[i].Component, name)}
        IN  IF hits = {} THEN ret = Ones3
            ELSE \E i \in hits :
                    /\ \A j \in hits : i <= j
                    /\ ret = Returns(Tuple(RowFactors(data[i])))

\* Witness of C8: two records match a name written in another case or with
\* padding, they hold different factors, and the first one's are returned.
C8_Witness ==
    /\ Done("get_component_factors")
    /\ ~IsNone(args[2])
    /\ Len(args[1]) = 2
    /\ args[1][1].Component # args[2]
    /\ SameName(args[1][1].Component, args[2])
    /\ SameName(args[1][2].Component, args[2])
    /\ RowFactors(args[1][1]) # RowFactors(args[1][2])
    /\ ret = Returns(Tuple(RowFactors(args[1][1])))

\* Ta is absent or a positive period.
TaAbsentOrPositive(Ta) == IsNone(Ta) \/ Gt(Ta, Zero)

\* C9: for h > 0, Ta absent or positive and z > h, calculate_hf(z, h, Ta)
\* returns what calculate_hf(h, h, Ta) returns.
C9_HfCapsZ ==
    (/\ Done("calculate_hf")
     /\ Gt(args[2], Zero)
     /\ TaAbsentOrPositive(args[3])
     /\ Gt(args[1], args[2])) =>
        ret = calculate_hf(args[2], args[2], args[3])

\* Witness of C9: a call with z > h > 0 and a positive period, returning
\* Hf = 1 + a1 + a2.
C9_Witness ==
    /\ Done("calculate_hf")
    /\ Gt(args[2], Zero) /\ Gt(args[1], args[2])
    /\ ~IsNone(args[3]) /\ Gt(args[3], F(2, 5))
    /\ ret.exc = "none" /\ ret.val.t = "tuple"
    /\ ret.val.items[1] = Add(Add(One, ret.val.items[2]), ret.val.items[3])

\* C10: for h > 0 and z = 0, calculate_hf returns Hf = 1, with Ta absent and
\* with any positive Ta.
C10_HfOneAtGrade ==
    (/\ Done("calculate_hf")
     /\ Gt(args[2], Zero)
     /\ TaAbsentOrPositive(args[3])
     /\ args[1] = Zero) =>
        /\ ret.exc = "none"
        /\ ret.val.t = "tuple"
        /\ ret.val.items[1] = One

\* Witness of C10: z = 0 with a period above 0.4, so that a2 > 0, and Hf = 1.
C10_Witness ==
    /\ Done("calculate_hf")
    /\ args[1] = Zero /\ Gt(args[2], Zero)
    /\ ~IsNone(args[3]) /\ Gt(args[3], F(2, 5))
    /\ ret.exc = "none" /\ ret.val.t = "tuple"
    /\ Gt(ret.val.items[3], Zero)
    /\ ret.val.items[1] = One

\* C11: calculate_ta returns (None, None, None) when the structure type is
\* absent and when it matches no record; when it matches, it returns
\* (Ct * hn ** x, Ct, x) with Ct and x of the first matching record.
C11_PeriodLookup ==
    Done("calculate_ta") =>
        LET data == args[1]
            name == args[2]
            hn == args[3]
            hits == IF IsNone(name) THEN {}
                    ELSE {i \in 1..Len(data) :
                            SameName(data[i]["Structure Type "], name)}
        IN  IF hits = {} THEN ret = Returns(Tuple(<<None, None, None>>))
            ELSE \E i \in hits :
                    /\ \A j \in hits : i <= j
                    /\ ret.exc = "none"
                    /\ ret.val.t = "tuple"
                    /\ ret.val.items =
                         <<Times(data[i]["Ct"], Power(hn, data[i]["x"])),
                           data[i]["Ct"], data[i]["x"]>>

\* Witness of C11: two records match the structure type, they hold different
\* Ct and x, and the call returns the first one's with the period
\* 0.1 * 1 ** 0.5 = 0.1.
C11_Witness ==
    /\ Done("calculate_ta")
    /\ ~IsNone(args[2])
    /\ Len(args[1]) = 2
    /\ SameName(args[1][1]["Structure Type "], args[2])
    /\ SameName(args[1][2]["Structure Type "], args[2])
    /\ args[1][1]["Ct"] = F(1, 10) /\ args[1][2]["Ct"] = F(7, 250)
    /\ args[3] = One
    /\ ret = Returns(Tuple(<<F(1, 10), F(1, 10), F(1, 2)>>))

\* C16: for h > 0, z >= 0 and Ta absent or positive, calculate_hf returns a
\* triple whose Hf satisfies 1 <= Hf <= 3.5.
C16_HfWithinBounds ==
    (/\ Done("calculate_hf")
     /\ Gt(args[2], Zero)
     /\ Le(Zero, args[1])
     /\ TaAbsentOrPositive(args[3])) =>
        /\ ret.exc = "none"
        /\ ret.val.t = "tuple"
        /\ Le(One, ret.val.items[1])
        /\ Le(ret.val.items[1], F(7, 2))

\* Witness of C16: z above h > 0 with Ta absent, where only the cap on z keeps
\* Hf at its upper bound 3.5.
C16_Witness ==
    /\ Done("calculate_hf")
    /\ Gt(args[2], Zero) /\ Gt(args[1], args[2])
    /\ IsNone(args[3])
    /\ ret.exc = "none" /\ ret.val.t = "tuple"
    /\ ret.val.items[1] = F(7, 2)

(* ------------------------------------------------------------------ *)
(* Properties of the application script                                *)
(* ------------------------------------------------------------------ *)

\* A run is on display, and it went past the choice of the editions.
Ran == ~IsNone(run) /\ run.stopped # "version"

DerivedFunctions ==
    {"calculate_hf", "calculate_rmu", "calculate_fp_coeff_16", "calculate_fp_coeff_22"}

\* The calls of the function f made by the run on display.
CallsOf(f) == {i \in 1..Len(run.calls) : run.calls[i].fn = f}

\* C12: calculate_hf, calculate_rmu, calculate_fp_coeff_16 and
\* calculate_fp_coeff_22 are called only in runs in which a component is
\* selected, SDS is available and, with ASCE 7-22, a structural system is
\* resolved and the period is resolved unless the period mode is "Unknown";
\* and no argument of such a call is None, except the period in that mode.
C12_CallsAfterRequired ==
    Ran =>
        \A i \in 1..Len(run.calls) :
            LET c == run.calls[i]
            IN  c.fn \in DerivedFunctions =>
                    /\ ~IsNone(ui.component_name)
                    /\ ~IsNone(run.SDS)
                    /\ ui.asce_7_22 =>
                           /\ ~IsNone(run.selected_sfrs)
                           /\ run.ta_mode # "Unknown" => ~IsNone(run.Ta)
                    /\ \A k \in 1..Len(c.args) :
                           IsNone(c.args[k]) =>
                               /\ c.fn = "calculate_hf"
                               /\ k = 3
                               /\ run.ta_mode = "Unknown"

\* Witness of C12: a run with both editions that passed every check and
\* called all four functions, the period being calculated from the
\* structure type.
C12_Witness ==
    /\ Ran
    /\ ui.asce_7_16 /\ ui.asce_7_22
    /\ ui.ta_mode = "Calculate from structure type"
    /\ ui.r_mode = "Use SFRS"
    /\ run.stopped = "none" /\ run.exc = "none"
    /\ \A f \in DerivedFunctions : CallsOf(f) # {}

\* The outcome of the last call of f in the run on display.
LastCall(f) == run.calls[CHOOSE i \in CallsOf(f) : \A j \in CallsOf(f) : j <= i].ret

LookupOf(version) ==
    IF version = "7-16" THEN "get_component_factors_16" ELSE "get_component_factors"

\* C13: in the result of each edition, Emh_coeff and Emh are present exactly
\* when the component lookup returned an Omega that is not None, and then
\* Emh_coeff = Omega * Fp_coeff; with Omega None they are absent.
C13_EmhWithOmega ==
    Ran =>
        \A version \in DOMAIN run.results :
            LET result == run.results[version]
                Omega == LastCall(LookupOf(version)).val.items[3]
            IN  ~IsNone(result) =>
                    /\ result.Omega = Omega
                    /\ ("Emh_coeff" \in DOMAIN result) <=> ~IsNone(Omega)
                    /\ ("Emh" \in DOMAIN result) <=> ~IsNone(Omega)
                    /\ ~IsNone(Omega) =>
                           result.Emh_coeff = Mul(Omega, result.Fp_coeff)

\* Witness of C13: one run whose ASCE 7-16 result has no Emh outputs (the
\* lookup returned no Omega) and whose ASCE 7-22 result has
\* Emh_coeff = 1.75 * Fp_coeff > 0.
C13_Witness ==
    /\ Ran
    /\ DOMAIN run.results = {"7-16", "7-22"}
    /\ ~IsNone(run.results["7-16"]) /\ ~IsNone(run.results["7-22"])
    /\ "Emh_coeff" \notin DOMAIN run.results["7-16"]
    /\ "Emh" \notin DOMAIN run.results["7-16"]
    /\ "Emh_coeff" \in DOMAIN run.results["7-22"]
    /\ Gt(run.results["7-22"].Fp_coeff, Zero)
    /\ run.results["7-22"].Emh_coeff = Mul(F(7, 4), run.results["7-22"].Fp_coeff)

\* C14 (as claimed): the z_over_h passed to calculate_fp_coeff_16 lies in
\* [0, 1] for every z >= 0 and h >= 1, also when z exceeds h.
C14_RatioCapped ==
    Ran =>
        \A i \in CallsOf("calculate_fp_coeff_16") :
            /\ Le(Zero, run.calls[i].args[5])
            /\ Le(run.calls[i].args[5], One)

\* C15: in "Fetch from USGS" mode the SDS a run uses is the value of the
\* service for exactly the current (lat, lon, risk category, site class), with
\* lat and lon resolved; otherwise SDS is None, the run stops and calls none
\* of the four functions.  The stored SDS is the value for the stored
\* parameters.
C15_SdsForCurrentParams ==
    /\ ~IsNone(sds_value) =>
           sds_value = UsgsSds(sds_params.items[1], sds_params.items[2],
                               sds_params.items[3], sds_params.items[4])
    /\ (Ran /\ ui.sds_mode = "Fetch from USGS") =>
           IF IsNone(run.SDS)
           THEN /\ run.stopped # "none"
                /\ \A f \in DerivedFunctions : CallsOf(f) = {}
           ELSE /\ ~IsNone(ui.lat) /\ ~IsNone(ui.lon)
                /\ run.SDS = UsgsSds(ui.lat, ui.lon, ui.risk_category, ui.site_class)
                /\ sds_params = current_params(ui)

\* Witness of C15: an SDS is stored for other parameters than the current
\* ones, lat and lon are resolved, the button was not pressed, every other
\* required value is there, and the run stops for want of SDS.
C15_Witness ==
    /\ Ran
    /\ ui.sds_mode = "Fetch from USGS"
    /\ ~IsNone(ui.lat) /\ ~ui.button
    /\ ~IsNone(sds_value)
    /\ sds_params # current_params(ui)
    /\ IsNone(run.SDS)
    /\ run.stopped = "sds"

====
